---------------------------- MODULE Spec2Model ----------------------------
(* A model of the two containers of mwat56/sortedlists:                    *)
(*   TSortedSlice (src/app/sortedlists.go) - the sorted unique sequence,   *)
(*   TSortedMap   (src/sortedmap.go)       - the sorted associative map.   *)
(* Go slices are 0-based; sequences here are 1-based, so an index idx of   *)
(* the source is position idx + 1 of the sequence (see At).                *)
EXTENDS Integers, Sequences, FiniteSets, TLC

(* ------------------------------ bounds ------------------------------- *)

\* the elements of the set are 1..MaxElem
MaxElem == 3
\* the set is never grown beyond MaxLen elements
MaxLen == 4
\* the longest initial list handed to NewSlice
MaxInit == 2
\* the keys of the map are 1..MaxKey
MaxKey == 3
\* the values of the map are 1..MaxVal
MaxVal == 2
\* the goroutines are 1..MaxThreads
MaxThreads == 3
\* the caller of NewSlice makes at most MaxOps calls and writes
MaxOps == 4

Elems == 1..MaxElem
Indexes == (0 - 2)..(MaxLen + 1)
KeySet == 1..MaxKey
ValSet == 1..MaxVal
Threads == 1..MaxThreads
\* where the values stored do not matter, every value stored is the same
OneVal == {1}

VARIABLES
    ssData,     \* TSortedSlice.data
    ssOp,       \* name of the last public TSortedSlice method called
    ssArg,      \* its first argument (element or index)
    ssArg2,     \* its second argument (Rename's new value)
    ssRet,      \* its boolean result (Get: found)
    ssVal,      \* its value result (Get: element, FindIndex: index)
    ssPanic,    \* the call aborted with a run-time panic
    ssPre,      \* TSortedSlice.data before the last call
    smData,     \* TSortedMap.data
    smKeys,     \* TSortedMap.keys
    smOp,       \* name of the last public TSortedMap method called
    smArg,      \* its first argument (key)
    smArg2,     \* its second argument (Insert's value, Rename's new key)
    smRet,      \* its boolean result
    smPreData,  \* TSortedMap.data before the last call
    smPreKeys,  \* TSortedMap.keys before the last call
    smPrevOp,   \* name of the call before the last
    smPrevArg,  \* first argument of the call before the last
    smPrevArg2, \* second argument of the call before the last
    smOut,      \* the sequence the last call produced (FindIndex: the keys,
                \* Iterate: the (key, value) pairs handed to the callback,
                \* cursor: the (key, value) pair returned)
    ssSafe,     \* TSortedSlice.safe
    smSafe,     \* TSortedMap.safe
    mtx,        \* the two sync.RWMutex, mtx.ss of the set and mtx.sm of the
                \* map: the number of read locks held and the write lock
    stack,      \* per goroutine, the calls it is inside of, innermost last
    last,       \* per goroutine, the outermost call it completed and has
                \* not followed by another yet
    reentered,  \* per goroutine, what the callback of its Iterate did
    itLive,     \* Iterator() was called: a cursor exists
    itIdx,      \* the variable idx the cursor closure captured
    itEnded,    \* some invocation of the cursor returned hasMore = false
    itGrown,    \* a key was added to the map after the cursor ended
    heap,       \* the backing arrays: the caller's and one per instance
    hdr,        \* per holder, its slice header: array, offset, length
    memOps      \* the number of operations made on the backing arrays

ssVars == <<ssData, ssOp, ssArg, ssArg2, ssRet, ssVal, ssPanic, ssPre>>
smVars == <<smData, smKeys, smOp, smArg, smArg2, smRet, smPreData,
            smPreKeys, smPrevOp, smPrevArg, smPrevArg2, smOut>>
itVars == <<itLive, itIdx, itEnded, itGrown>>
thVars == <<ssSafe, smSafe, mtx, stack, last, reentered, itVars>>
ownVars == <<heap, hdr, memOps>>
vars == <<ssVars, smVars, thVars, ownVars>>

(* ------------------------- helpers on slices ------------------------- *)

\* s[idx] of the source
At(s, idx) == s[idx + 1]

\* s[lo:hi] of the source
Slice(s, lo, hi) == SubSeq(s, lo + 1, hi)

Range(s) == {s[i] : i \in 1..Len(s)}

Count(s, x) == Cardinality({i \in 1..Len(s) : s[i] = x})

StrictlyAscending(s) == \A i \in 1..(Len(s) - 1) : s[i] < s[i + 1]

\* the ascending sequence of the elements of the finite set S
AscendingSeqOf(S) ==
    CHOOSE s \in [1..Cardinality(S) -> S] :
        StrictlyAscending(s) /\ (Range(s) = S)

\* all duplicate-free sequences over S of length at most n
DupFreeSeqs(S, n) ==
    {s \in UNION {[1..k -> S] : k \in 0..n} :
        \A i, j \in 1..Len(s) : (i # j) => (s[i] # s[j])}

\* slices.Sort: the ascending permutation of s (insertion into a sorted
\* prefix, element by element)
RECURSIVE SortInsert(_, _)
SortInsert(s, x) ==
    IF s = <<>> THEN <<x>>
    ELSE IF x < Head(s) THEN <<x>> \o s
         ELSE <<Head(s)>> \o SortInsert(Tail(s), x)

RECURSIVE Sort(_)
Sort(s) == IF s = <<>> THEN <<>>
           ELSE SortInsert(Sort(SubSeq(s, 1, Len(s) - 1)), s[Len(s)])

\* the loop of slices.BinarySearch: i, j := 0, n; for i < j { h := (i+j)/2;
\* if x[h] < target { i = h + 1 } else { j = h } }
RECURSIVE SearchLoop(_, _, _, _)
SearchLoop(x, target, i, j) ==
    IF i < j
    THEN LET h == (i + j) \div 2
         IN  IF At(x, h) < target
             THEN SearchLoop(x, target, h + 1, j)
             ELSE SearchLoop(x, target, i, h)
    ELSE i

\* slices.BinarySearch(x, target) -> (idx, found)
BinarySearch(x, target) ==
    LET i == SearchLoop(x, target, 0, Len(x))
    IN  [idx |-> i, found |-> (i < Len(x)) /\ (At(x, i) = target)]

\* copy(s[d:], s[f:]) of the source: the overlapping copy inside one slice
Copy(s, d, f) ==
    LET n == IF Len(s) - d < Len(s) - f THEN Len(s) - d ELSE Len(s) - f
    IN  [p \in 1..Len(s) |->
            IF (p - 1 >= d) /\ (p - 1 < d + n) THEN At(s, f + (p - 1 - d))
            ELSE s[p]]

(* ---------------------------- TSortedSlice --------------------------- *)

\* NewSlice(aList, aSafe): the list, sorted
NewSlice(aList) == Sort(aList)

\* TSortedSlice.delete
TSortedSlice_delete(data, aElement) ==
    LET sLen == Len(data)
        bs   == BinarySearch(data, aElement)
        idx  == bs.idx
    IN  IF 0 = sLen THEN [data |-> data, ret |-> FALSE]
        ELSE IF ~bs.found THEN [data |-> data, ret |-> FALSE]
        ELSE IF (idx < sLen) /\ (At(data, idx) = aElement)
        THEN IF 0 = idx
             THEN IF 1 = sLen THEN [data |-> <<>>, ret |-> TRUE]
                  ELSE [data |-> Slice(data, 1, sLen), ret |-> TRUE]
             ELSE IF (sLen - 1) = idx
             THEN [data |-> Slice(data, 0, idx), ret |-> TRUE]
             ELSE [data |-> Slice(data, 0, idx) \o Slice(data, idx + 1, sLen),
                   ret |-> TRUE]
        ELSE [data |-> data, ret |-> FALSE]

\* TSortedSlice.findIndex
TSortedSlice_findIndex(data, aElement) ==
    LET sLen == Len(data)
        bs   == BinarySearch(data, aElement)
    IN  IF 0 = sLen THEN 0 - 1
        ELSE IF ~bs.found THEN 0 - 1
        ELSE IF (bs.idx < sLen) /\ (At(data, bs.idx) = aElement) THEN bs.idx
        ELSE 0 - 1

\* TSortedSlice.insert
TSortedSlice_insert(data, aElement) ==
    LET sLen == Len(data)
        bs   == BinarySearch(data, aElement)
        idx  == bs.idx
    IN  IF 0 = sLen THEN [data |-> Append(data, aElement), ret |-> TRUE]
        ELSE IF ~bs.found
        THEN [data |-> Append(data, aElement), ret |-> TRUE]
        ELSE IF sLen = idx
        THEN [data |-> Append(data, aElement), ret |-> TRUE]
        ELSE IF At(data, idx) # aElement
        THEN [data |-> [Copy(Append(data, aElement), idx + 1, idx)
                            EXCEPT ![idx + 1] = aElement],
              ret |-> TRUE]
        ELSE [data |-> data, ret |-> FALSE]

\* TSortedSlice.rename
TSortedSlice_rename(data, aOldValue, aNewValue) ==
    LET idx == TSortedSlice_findIndex(data, aOldValue)
        ins == TSortedSlice_insert(data, aNewValue)
    IN  IF (0 = Len(data)) \/ (aOldValue = aNewValue)
        THEN [data |-> data, ret |-> FALSE]
        ELSE IF 0 > idx THEN ins
        ELSE IF ~ins.ret
        THEN IF At(ins.data, idx) # aNewValue
             THEN [data |-> Sort([ins.data EXCEPT ![idx + 1] = aNewValue]),
                   ret |-> TRUE]
             ELSE [data |-> ins.data, ret |-> FALSE]
        ELSE TSortedSlice_delete(ins.data, aOldValue)

\* the body of TSortedSlice.Get -> (value, found), or a run-time panic: a
\* negative aIndex passes the test aIndex < len(ss.data) and the index
\* expression ss.data[aIndex] is then out of range
TSortedSlice_getAt(data, aIndex) ==
    IF aIndex < Len(data)
    THEN IF aIndex < 0
         THEN [val |-> 0, found |-> FALSE, panic |-> TRUE]
         ELSE [val |-> At(data, aIndex), found |-> TRUE, panic |-> FALSE]
    ELSE [val |-> 0, found |-> FALSE, panic |-> FALSE]

\* the bookkeeping every TSortedSlice call does: remember the call
SsCall(op, a, b, ret, val, panic) ==
    /\ ssOp' = op
    /\ ssArg' = a
    /\ ssArg2' = b
    /\ ssRet' = ret
    /\ ssVal' = val
    /\ ssPanic' = panic
    /\ ssPre' = ssData

\* TSortedSlice.Clear
TSortedSlice_Clear ==
    /\ ~ssPanic
    /\ ssData' = <<>>
    /\ SsCall("Clear", 0, 0, TRUE, 0, FALSE)
    /\ UNCHANGED <<smVars, thVars, ownVars>>

\* TSortedSlice.Delete
TSortedSlice_Delete ==
    /\ ~ssPanic
    /\ \E aElement \in Elems :
          LET r == TSortedSlice_delete(ssData, aElement)
          IN  /\ ssData' = r.data
              /\ SsCall("Delete", aElement, 0, r.ret, 0, FALSE)
    /\ UNCHANGED <<smVars, thVars, ownVars>>

\* TSortedSlice.FindIndex
TSortedSlice_FindIndex ==
    /\ ~ssPanic
    /\ \E aElement \in Elems :
          /\ ssData' = ssData
          /\ SsCall("FindIndex", aElement, 0, TRUE,
                    TSortedSlice_findIndex(ssData, aElement), FALSE)
    /\ UNCHANGED <<smVars, thVars, ownVars>>

\* TSortedSlice.Get
TSortedSlice_Get ==
    /\ ~ssPanic
    /\ \E aIndex \in Indexes :
          LET r == TSortedSlice_getAt(ssData, aIndex)
          IN  /\ ssData' = ssData
              /\ SsCall("Get", aIndex, 0, r.found, r.val, r.panic)
    /\ UNCHANGED <<smVars, thVars, ownVars>>

\* TSortedSlice.Insert
TSortedSlice_Insert ==
    /\ ~ssPanic
    /\ \E aElement \in Elems :
          LET r == TSortedSlice_insert(ssData, aElement)
          IN  /\ Len(r.data) <= MaxLen
              /\ ssData' = r.data
              /\ SsCall("Insert", aElement, 0, r.ret, 0, FALSE)
    /\ UNCHANGED <<smVars, thVars, ownVars>>

\* TSortedSlice.Rename
TSortedSlice_Rename ==
    /\ ~ssPanic
    /\ \E aOldValue \in Elems, aNewValue \in Elems :
          LET r == TSortedSlice_rename(ssData, aOldValue, aNewValue)
          IN  /\ Len(r.data) <= MaxLen
              /\ ssData' = r.data
              /\ SsCall("Rename", aOldValue, aNewValue, r.ret, 0, FALSE)
    /\ UNCHANGED <<smVars, thVars, ownVars>>

(* ----------------------- backing arrays of slices -------------------- *)

\* the capacity of make([]T, 0, 32)
MakeCap == 32

\* the caller of NewSlice and the two TSortedSlice instances it builds
Instances == {"s1", "s2"}
Holders == {"caller"} \cup Instances

\* the header of a slice that was not made yet
NoSlice == [arr |-> "none", off |-> 0, len |-> 0]

\* n elements of the zero value
Zeros(n) == [j \in 1..n |-> 0]

\* the elements holder h sees through its slice header
MemView(m, h) ==
    IF m.hdr[h].arr = "none" THEN <<>>
    ELSE SubSeq(m.heap[m.hdr[h].arr], m.hdr[h].off + 1,
                m.hdr[h].off + m.hdr[h].len)

\* cap(s) of the slice of holder h
MemCap(m, h) == Len(m.heap[m.hdr[h].arr]) - m.hdr[h].off

\* s[k], s[k+1], ... = seq[0], seq[1], ...: stores into the backing array
MemStore(m, h, k, seq) ==
    LET a == m.hdr[h].arr
        o == m.hdr[h].off
    IN  [m EXCEPT !.heap[a] =
            [j \in 1..Len(@) |->
                IF (j - o - 1 >= k) /\ (j - o - 1 < k + Len(seq))
                THEN seq[j - o - k] ELSE @[j]]]

\* ss.data = make([]T, 0, 32): a new backing array of instance i
MemMake(m, i) ==
    [heap |-> [m.heap EXCEPT ![i] = Zeros(MakeCap)],
     hdr  |-> [m.hdr EXCEPT ![i] = [arr |-> i, off |-> 0, len |-> 0]]]

\* ss.data = append(ss.data, e): in place while the capacity lasts, else
\* into a new backing array of capacity c
MemAppend(m, i, e, c) ==
    LET n == m.hdr[i].len
    IN  IF n < MemCap(m, i)
        THEN [MemStore(m, i, n, <<e>>) EXCEPT !.hdr[i].len = n + 1]
        ELSE [heap |-> [m.heap EXCEPT ![i] =
                           MemView(m, i) \o <<e>> \o Zeros(c - n - 1)],
              hdr  |-> [m.hdr EXCEPT ![i] =
                           [arr |-> i, off |-> 0, len |-> n + 1]]]

\* slices.Sort(ss.data): sorts the elements where they are
MemSort(m, i) == MemStore(m, i, 0, Sort(MemView(m, i)))

\* NewSlice(aList, aSafe): list = aList when aList is not empty, a new
\* array otherwise; then slices.Sort(ss.data)
MemNewSlice(m, i) ==
    IF 0 < m.hdr["caller"].len
    THEN MemSort([m EXCEPT !.hdr[i] = m.hdr["caller"]], i)
    ELSE MemSort(MemMake(m, i), i)

\* TSortedSlice.delete on the backing array
MemDelete(m, i, aElement) ==
    LET data == MemView(m, i)
        sLen == Len(data)
        bs   == BinarySearch(data, aElement)
        idx  == bs.idx
    IN  IF 0 = sLen THEN [mem |-> m, ret |-> FALSE]
        ELSE IF ~bs.found THEN [mem |-> m, ret |-> FALSE]
        ELSE IF (idx < sLen) /\ (At(data, idx) = aElement)
        THEN IF 0 = idx
             THEN IF 1 = sLen THEN [mem |-> MemMake(m, i), ret |-> TRUE]
                  ELSE [mem |-> [m EXCEPT !.hdr[i].off = @ + 1,
                                         !.hdr[i].len = @ - 1],
                        ret |-> TRUE]
             ELSE IF (sLen - 1) = idx
             THEN [mem |-> [m EXCEPT !.hdr[i].len = idx], ret |-> TRUE]
             ELSE [mem |-> [MemStore(m, i, idx, Slice(data, idx + 1, sLen))
                               EXCEPT !.hdr[i].len = sLen - 1],
                   ret |-> TRUE]
        ELSE [mem |-> m, ret |-> FALSE]

\* TSortedSlice.insert on the backing array: every path that adds the
\* element appends it
MemInsert(m, i, aElement, c) ==
    LET data == MemView(m, i)
        sLen == Len(data)
        bs   == BinarySearch(data, aElement)
    IN  IF 0 = sLen THEN [mem |-> MemAppend(m, i, aElement, c), ret |-> TRUE]
        ELSE IF ~bs.found
        THEN [mem |-> MemAppend(m, i, aElement, c), ret |-> TRUE]
        ELSE [mem |-> m, ret |-> FALSE]

\* TSortedSlice.rename on the backing array
MemRename(m, i, aOldValue, aNewValue, c) ==
    LET data == MemView(m, i)
        idx  == TSortedSlice_findIndex(data, aOldValue)
        ins  == MemInsert(m, i, aNewValue, c)
    IN  IF (0 = Len(data)) \/ (aOldValue = aNewValue)
        THEN [mem |-> m, ret |-> FALSE]
        ELSE IF 0 > idx THEN ins
        ELSE IF ~ins.ret
        THEN IF At(data, idx) # aNewValue
             THEN [mem |-> MemSort(MemStore(m, i, idx, <<aNewValue>>), i),
                   ret |-> TRUE]
             ELSE [mem |-> m, ret |-> FALSE]
        ELSE MemDelete(ins.mem, i, aOldValue)

\* the memory the variables hold
Mem == [heap |-> heap, hdr |-> hdr]

\* the capacities append may give the new backing array of a slice of n
\* elements that is full
GrowCaps(n) == {n + 1, 2 * n}

\* one more operation has made the memory m
MemCall(m) ==
    /\ memOps < MaxOps
    /\ heap' = m.heap
    /\ hdr' = m.hdr
    /\ memOps' = memOps + 1

\* a := []T{...}: the caller's list before any NewSlice
MemInit(aList) ==
    /\ heap = [h \in Holders |-> IF h = "caller" THEN aList ELSE <<>>]
    /\ hdr = [h \in Holders |->
                 IF h = "caller"
                 THEN [arr |-> "caller", off |-> 0, len |-> Len(aList)]
                 ELSE NoSlice]
    /\ memOps = 0

\* s := NewSlice(a, false)
Caller_NewSlice(i) ==
    /\ hdr[i] = NoSlice
    /\ MemCall(MemNewSlice(Mem, i))
    /\ UNCHANGED <<ssVars, smVars, thVars>>

\* s.Insert(aElement)
Instance_Insert(i) ==
    /\ hdr[i] # NoSlice
    /\ hdr[i].len <= MaxInit
    /\ \E aElement \in Elems, c \in GrowCaps(hdr[i].len) :
          MemCall(MemInsert(Mem, i, aElement, c).mem)
    /\ UNCHANGED <<ssVars, smVars, thVars>>

\* s.Delete(aElement)
Instance_Delete(i) ==
    /\ hdr[i] # NoSlice
    /\ \E aElement \in Elems :
          MemCall(MemDelete(Mem, i, aElement).mem)
    /\ UNCHANGED <<ssVars, smVars, thVars>>

\* s.Rename(aOldValue, aNewValue)
Instance_Rename(i) ==
    /\ hdr[i] # NoSlice
    /\ hdr[i].len <= MaxInit
    /\ \E aOldValue \in Elems, aNewValue \in Elems,
          c \in GrowCaps(hdr[i].len) :
          MemCall(MemRename(Mem, i, aOldValue, aNewValue, c).mem)
    /\ UNCHANGED <<ssVars, smVars, thVars>>

\* a[k] = v, after some NewSlice(a, false)
Caller_writes ==
    /\ \E i \in Instances : hdr[i] # NoSlice
    /\ \E k \in 0..(hdr["caller"].len - 1), v \in Elems :
          MemCall(MemStore(Mem, "caller", k, <<v>>))
    /\ UNCHANGED <<ssVars, smVars, thVars>>

(* ----------------------------- TSortedMap ---------------------------- *)

\* make(map[K]V): the map without entries
EmptyMap == [k \in {} |-> 0]

\* sm.data[aKey] = aValue
MapSet(data, aKey, aValue) ==
    [k \in (DOMAIN data) \cup {aKey} |-> IF k = aKey THEN aValue ELSE data[k]]

\* delete(sm.data, aKey)
MapDelete(data, aKey) == [k \in (DOMAIN data) \ {aKey} |-> data[k]]

\* sort.Search(n, func(i) bool { return sm.keys[i] >= aKey }), started
\* with i, j := 0, n: the smallest index whose key is not below aKey
RECURSIVE SortSearch(_, _, _, _)
SortSearch(keys, aKey, i, j) ==
    IF i < j
    THEN LET h == (i + j) \div 2
         IN  IF ~(At(keys, h) >= aKey)
             THEN SortSearch(keys, aKey, h + 1, j)
             ELSE SortSearch(keys, aKey, i, h)
    ELSE i

\* for idx, key := range keys { if key == aKey { ...; break } }: the first
\* index holding aKey, or -1 when the loop ends without a hit
FirstIndex(keys, aKey) ==
    LET hits == {i \in 0..(Len(keys) - 1) : At(keys, i) = aKey}
    IN  IF hits = {} THEN 0 - 1
        ELSE CHOOSE i \in hits : \A j \in hits : i <= j

\* TSortedMap.delete with the slip of leaving the key in keys
TSortedMap_delete_keepsKey(data, keys, aKey) ==
    IF aKey \in DOMAIN data
    THEN [data |-> MapDelete(data, aKey), keys |-> keys, ret |-> TRUE]
    ELSE [data |-> data, keys |-> keys, ret |-> FALSE]

\* TSortedMap.delete
TSortedMap_delete(data, keys, aKey) ==
    IF aKey \in DOMAIN data
    THEN LET idx == FirstIndex(keys, aKey)
         IN  [data |-> MapDelete(data, aKey),
              keys |-> IF idx < 0 THEN keys
                       ELSE Slice(keys, 0, idx) \o
                            Slice(keys, idx + 1, Len(keys)),
              ret  |-> TRUE]
    ELSE [data |-> data, keys |-> keys, ret |-> FALSE]

\* TSortedMap.Get -> (value, exists)
TSortedMap_get(data, aKey) ==
    IF aKey \in DOMAIN data THEN [val |-> data[aKey], found |-> TRUE]
    ELSE [val |-> 0, found |-> FALSE]

\* TSortedMap.insert with the slip of putting every new key at the end of
\* keys instead of at the index the search found
TSortedMap_insert_atEnd(data, keys, aKey, aValue) ==
    IF aKey \in DOMAIN data
    THEN [data |-> MapSet(data, aKey, aValue), keys |-> keys, ret |-> TRUE]
    ELSE [data |-> MapSet(data, aKey, aValue),
          keys |-> Append(keys, aKey),
          ret  |-> TRUE]

\* TSortedMap.insert with the slip of returning for an existing key before
\* the new value is stored
TSortedMap_insert_keepsValue(data, keys, aKey, aValue) ==
    IF aKey \in DOMAIN data
    THEN [data |-> data, keys |-> keys, ret |-> TRUE]
    ELSE LET sLen == Len(keys)
             idx  == SortSearch(keys, aKey, 0, sLen)
         IN  [data |-> MapSet(data, aKey, aValue),
              keys |-> IF 0 = sLen THEN Append(keys, aKey)
                       ELSE IF sLen = idx THEN Append(keys, aKey)
                       ELSE IF At(keys, idx) # aKey
                       THEN [Copy(Append(keys, aKey), idx + 1, idx)
                                EXCEPT ![idx + 1] = aKey]
                       ELSE keys,
              ret  |-> TRUE]

\* TSortedMap.insert
TSortedMap_insert(data, keys, aKey, aValue) ==
    IF aKey \in DOMAIN data
    THEN [data |-> MapSet(data, aKey, aValue), keys |-> keys, ret |-> TRUE]
    ELSE LET sLen == Len(keys)
             idx  == SortSearch(keys, aKey, 0, sLen)
         IN  [data |-> MapSet(data, aKey, aValue),
              keys |-> IF 0 = sLen THEN Append(keys, aKey)
                       ELSE IF sLen = idx THEN Append(keys, aKey)
                       ELSE IF At(keys, idx) # aKey
                       THEN [Copy(Append(keys, aKey), idx + 1, idx)
                                EXCEPT ![idx + 1] = aKey]
                       ELSE keys,
              ret  |-> TRUE]

\* TSortedMap.rename with the slip of leaving out the final slices.Sort
TSortedMap_rename_unsorted(data, keys, aOldKey, aNewKey) ==
    IF aNewKey \in DOMAIN data
    THEN [data |-> data, keys |-> keys, ret |-> FALSE]
    ELSE IF (aOldKey \notin DOMAIN data) \/ (aOldKey = aNewKey)
    THEN [data |-> data, keys |-> keys, ret |-> FALSE]
    ELSE LET idx == FirstIndex(keys, aOldKey)
         IN  [data |-> MapSet(MapDelete(data, aOldKey), aNewKey,
                              data[aOldKey]),
              keys |-> IF idx < 0 THEN keys
                       ELSE [keys EXCEPT ![idx + 1] = aNewKey],
              ret  |-> TRUE]

\* TSortedMap.rename
TSortedMap_rename(data, keys, aOldKey, aNewKey) ==
    IF aNewKey \in DOMAIN data
    THEN [data |-> data, keys |-> keys, ret |-> FALSE]
    ELSE IF (aOldKey \notin DOMAIN data) \/ (aOldKey = aNewKey)
    THEN [data |-> data, keys |-> keys, ret |-> FALSE]
    ELSE LET idx == FirstIndex(keys, aOldKey)
         IN  [data |-> MapSet(MapDelete(data, aOldKey), aNewKey,
                              data[aOldKey]),
              keys |-> Sort(IF idx < 0 THEN keys
                            ELSE [keys EXCEPT ![idx + 1] = aNewKey]),
              ret  |-> TRUE]

\* TSortedMap.findIndex with the slip of leaving the loop at the first hit
RECURSIVE TSortedMap_findIndex_first(_, _, _)
TSortedMap_findIndex_first(data, keys, aValue) ==
    IF keys = <<>> THEN <<>>
    ELSE IF TSortedMap_get(data, Head(keys)).val = aValue
         THEN <<Head(keys)>>
         ELSE TSortedMap_findIndex_first(data, Tail(keys), aValue)

\* TSortedMap.findIndex: for _, key := range sm.keys, the keys whose value
\* is aValue, appended in the order of the loop
RECURSIVE TSortedMap_findIndex(_, _, _)
TSortedMap_findIndex(data, keys, aValue) ==
    IF keys = <<>> THEN <<>>
    ELSE (IF TSortedMap_get(data, Head(keys)).val = aValue
          THEN <<Head(keys)>> ELSE <<>>)
         \o TSortedMap_findIndex(data, Tail(keys), aValue)

\* the loop of TSortedMap.Iterate with the slip of starting at index 1
TSortedMap_iterate_skipsFirst(data, keys) ==
    [i \in 1..(Len(keys) - 1) |->
        <<keys[i + 1], TSortedMap_get(data, keys[i + 1]).val>>]

\* the loop of TSortedMap.Iterate: the calls f(key, sm.data[key]) it makes,
\* in order
TSortedMap_iterate(data, keys) ==
    [i \in 1..Len(keys) |-> <<keys[i], TSortedMap_get(data, keys[i]).val>>]

\* the closure TSortedMap.Iterator returns, with the slip of starting over
\* once the end is reached
Iterator_func_restarts(data, keys, idx) ==
    IF idx < Len(keys)
    THEN [key |-> At(keys, idx),
          val |-> TSortedMap_get(data, At(keys, idx)).val,
          more |-> TRUE, idx |-> idx + 1]
    ELSE [key |-> 0, val |-> 0, more |-> FALSE, idx |-> 0]

\* the closure TSortedMap.Iterator returns: one invocation with the
\* captured idx, giving (key, val, hasMore) and the idx it leaves
Iterator_func(data, keys, idx) ==
    IF idx < Len(keys)
    THEN [key |-> At(keys, idx),
          val |-> TSortedMap_get(data, At(keys, idx)).val,
          more |-> TRUE, idx |-> idx + 1]
    ELSE [key |-> 0, val |-> 0, more |-> FALSE, idx |-> idx]

\* the bookkeeping every TSortedMap call does: remember the call
SmCall(op, a, b, ret) ==
    /\ smOp' = op
    /\ smArg' = a
    /\ smArg2' = b
    /\ smRet' = ret
    /\ smPreData' = smData
    /\ smPreKeys' = smKeys
    /\ smPrevOp' = smOp
    /\ smPrevArg' = smArg
    /\ smPrevArg2' = smArg2

\* TSortedMap.Clear
TSortedMap_Clear ==
    /\ smData' = EmptyMap
    /\ smKeys' = <<>>
    /\ SmCall("Clear", 0, 0, TRUE)
    /\ smOut' = <<>>
    /\ UNCHANGED <<ssVars, thVars, ownVars>>

\* TSortedMap.Delete
TSortedMap_Delete ==
    /\ \E aKey \in KeySet :
          LET r == TSortedMap_delete(smData, smKeys, aKey)
          IN  /\ smData' = r.data
              /\ smKeys' = r.keys
              /\ SmCall("Delete", aKey, 0, r.ret)
    /\ smOut' = <<>>
    /\ UNCHANGED <<ssVars, thVars, ownVars>>

\* TSortedMap.Insert
TSortedMap_Insert ==
    /\ \E aKey \in KeySet, aValue \in ValSet :
          LET r == TSortedMap_insert(smData, smKeys, aKey, aValue)
          IN  /\ smData' = r.data
              /\ smKeys' = r.keys
              /\ SmCall("Insert", aKey, aValue, r.ret)
    /\ smOut' = <<>>
    /\ UNCHANGED <<ssVars, thVars, ownVars>>

\* TSortedMap.Rename
TSortedMap_Rename ==
    /\ \E aOldKey \in KeySet, aNewKey \in KeySet :
          LET r == TSortedMap_rename(smData, smKeys, aOldKey, aNewKey)
          IN  /\ smData' = r.data
              /\ smKeys' = r.keys
              /\ SmCall("Rename", aOldKey, aNewKey, r.ret)
    /\ smOut' = <<>>
    /\ UNCHANGED <<ssVars, thVars, ownVars>>

\* TSortedMap.FindIndex
TSortedMap_FindIndex ==
    /\ \E aValue \in ValSet :
          /\ SmCall("FindIndex", aValue, 0, TRUE)
          /\ smOut' = TSortedMap_findIndex(smData, smKeys, aValue)
    /\ UNCHANGED <<smData, smKeys, ssVars, thVars, ownVars>>

\* TSortedMap.Iterate, with a callback f that only notes its arguments
TSortedMap_Iterate ==
    /\ SmCall("Iterate", 0, 0, TRUE)
    /\ smOut' = TSortedMap_iterate(smData, smKeys)
    /\ UNCHANGED <<smData, smKeys, ssVars, thVars, ownVars>>

(* ------------------- goroutines, calls and the locks ----------------- *)

\* no call
NoCall ==
    [obj |-> "none", op |-> "none", a |-> 0, b |-> 0,
     ret |-> FALSE, panic |-> FALSE]

\* a sync.RWMutex nobody holds
FreeMtx == [readers |-> 0, writer |-> "free"]

\* the field safe of the set ("ss") or of the map ("sm")
Safe(obj) == IF obj = "ss" THEN ssSafe ELSE smSafe

\* the public methods that change a container and those that only read it
Mutating == {"Clear", "Delete", "Insert", "Rename"}
Reading == {"Get", "FindIndex", "Keys", "Data", "String", "Iterate"}

\* LockMode with the slip of Insert taking no lock
LockMode_insertUnlocked(obj, op) ==
    IF op \in {"Clear", "Delete", "Rename"} THEN "w"
    ELSE IF op \in {"Insert", "Iterator", "cursor"} THEN "none"
    ELSE "r"

\* LockMode with the slip of Rename taking the read lock
LockMode_renameReads(obj, op) ==
    IF op \in {"Clear", "Delete", "Insert"} THEN "w"
    ELSE IF op \in {"Iterator", "cursor"} THEN "none"
    ELSE "r"

\* LockMode with the closure Iterator returns taking the read lock
LockMode_cursorReads(obj, op) ==
    IF op \in {"Clear", "Delete", "Insert", "Rename"} THEN "w"
    ELSE IF op \in {"Iterator"} THEN "none"
    ELSE "r"

\* LockMode with the slip of Iterate taking no lock
LockMode_iterateUnlocked(obj, op) ==
    IF op \in {"Clear", "Delete", "Insert", "Rename"} THEN "w"
    ELSE IF op \in {"Iterator", "cursor", "Iterate"} THEN "none"
    ELSE "r"

\* the lock a public method takes when safe is set: "w" for mtx.Lock with a
\* deferred mtx.Unlock, "r" for mtx.RLock with a deferred mtx.RUnlock,
\* "none" for the two functions that take no lock (Iterator and the closure
\* it returns)
LockMode(obj, op) ==
    IF op \in {"Clear", "Delete", "Insert", "Rename"} THEN "w"
    ELSE IF op \in {"Iterator", "cursor"} THEN "none"
    ELSE "r"

\* the lock the call of frame f takes: none at all unless safe is set
Mode(f) == IF Safe(f.obj) THEN LockMode(f.obj, f.op) ELSE "none"

\* the frame of a call that has just begun
NewFrame(c) ==
    [obj |-> c.obj, op |-> c.op, a |-> c.a, b |-> c.b, pc |-> "enter",
     snap |-> <<>>, i |-> 0, n |-> 0, ret |-> FALSE, panic |-> FALSE]

\* the innermost call goroutine t is inside of
Top(t) == stack[t][Len(stack[t])]

Running(t, pc) == (stack[t] # <<>>) /\ (Top(t).pc = pc)

\* stack with the innermost frame of t replaced by f
WithTop(t, f) == [stack EXCEPT ![t][Len(stack[t])] = f]

\* the public calls on the map with keys K and values V, the invocation of
\* a cursor among them
MapWrites(K, V) ==
    {[obj |-> "sm", op |-> "Insert", a |-> k, b |-> v] : k \in K, v \in V}
    \cup {[obj |-> "sm", op |-> "Delete", a |-> k, b |-> 0] : k \in K}
    \cup {[obj |-> "sm", op |-> "Rename", a |-> k, b |-> k2] : k \in K, k2 \in K}
    \cup {[obj |-> "sm", op |-> "Clear", a |-> 0, b |-> 0]}

MapReads(K, V) ==
    {[obj |-> "sm", op |-> "Get", a |-> k, b |-> 0] : k \in K}
    \cup {[obj |-> "sm", op |-> "FindIndex", a |-> v, b |-> 0] : v \in V}
    \cup {[obj |-> "sm", op |-> o, a |-> 0, b |-> 0] :
             o \in {"Keys", "String", "Iterate"}}

MapCursor ==
    {[obj |-> "sm", op |-> o, a |-> 0, b |-> 0] : o \in {"Iterator", "cursor"}}

\* the public calls on the set with elements E and indexes I
SetWrites(E) ==
    {[obj |-> "ss", op |-> "Insert", a |-> e, b |-> 0] : e \in E}
    \cup {[obj |-> "ss", op |-> "Delete", a |-> e, b |-> 0] : e \in E}
    \cup {[obj |-> "ss", op |-> "Rename", a |-> e, b |-> e2] : e \in E, e2 \in E}
    \cup {[obj |-> "ss", op |-> "Clear", a |-> 0, b |-> 0]}

SetReads(E, I) ==
    {[obj |-> "ss", op |-> "Get", a |-> i, b |-> 0] : i \in I}
    \cup {[obj |-> "ss", op |-> "FindIndex", a |-> e, b |-> 0] : e \in E}
    \cup {[obj |-> "ss", op |-> o, a |-> 0, b |-> 0] : o \in {"Data", "String"}}

\* goroutine t begins the call c
Begin(t, c) ==
    /\ stack' = [stack EXCEPT ![t] = Append(@, NewFrame(c))]

\* if safe { mtx.Lock() } or if safe { mtx.RLock() } at the head of every
\* public method. Lock first shuts out later readers and writers (the
\* write lock is pending) and then waits for the readers to leave; RLock
\* waits while a write lock is pending or held.
Enter(t) ==
    /\ Running(t, "enter")
    /\ LET f == Top(t)
           m == Mode(f)
       IN  \/ /\ m = "w"
              /\ mtx[f.obj].writer = "free"
              /\ mtx' = [mtx EXCEPT ![f.obj].writer = "pending"]
              /\ stack' = WithTop(t, [f EXCEPT !.pc = "wwait"])
           \/ /\ m = "r"
              /\ mtx[f.obj].writer = "free"
              /\ mtx' = [mtx EXCEPT ![f.obj].readers = @ + 1]
              /\ stack' = WithTop(t, [f EXCEPT !.pc = "body"])
           \/ /\ m = "none"
              /\ mtx' = mtx
              /\ stack' = WithTop(t, [f EXCEPT !.pc = "body"])
    /\ UNCHANGED <<ssVars, smVars, ssSafe, smSafe, ownVars, last, reentered,
                   itVars>>

\* mtx.Lock() returns once no read lock is held
WAcquire(t) ==
    /\ Running(t, "wwait")
    /\ LET f == Top(t)
       IN  /\ mtx[f.obj].readers = 0
           /\ mtx' = [mtx EXCEPT ![f.obj].writer = "held"]
           /\ stack' = WithTop(t, [f EXCEPT !.pc = "body"])
    /\ UNCHANGED <<ssVars, smVars, ssSafe, smSafe, ownVars, last, reentered,
                   itVars>>

\* the body of Insert, Delete, Rename or Clear reads the fields it works on
Read(t) ==
    /\ Running(t, "body")
    /\ LET f == Top(t)
       IN  /\ f.op \in Mutating
           /\ stack' = WithTop(t, [f EXCEPT
                  !.pc = "write",
                  !.snap = IF f.obj = "ss" THEN [data |-> ssData, keys |-> <<>>]
                           ELSE [data |-> smData, keys |-> smKeys]])
    /\ UNCHANGED <<ssVars, smVars, ssSafe, smSafe, ownVars, mtx, last,
                   reentered, itVars>>

\* what the body of the call of frame f makes of the fields it read
Effect(f) ==
    IF f.obj = "ss"
    THEN LET r == CASE f.op = "Insert" -> TSortedSlice_insert(f.snap.data, f.a)
                    [] f.op = "Delete" -> TSortedSlice_delete(f.snap.data, f.a)
                    [] f.op = "Rename" ->
                           TSortedSlice_rename(f.snap.data, f.a, f.b)
                    [] OTHER -> [data |-> <<>>, ret |-> TRUE]
         IN  [data |-> r.data, keys |-> <<>>, ret |-> r.ret]
    ELSE CASE f.op = "Insert" ->
                  TSortedMap_insert(f.snap.data, f.snap.keys, f.a, f.b)
           [] f.op = "Delete" ->
                  TSortedMap_delete(f.snap.data, f.snap.keys, f.a)
           [] f.op = "Rename" ->
                  TSortedMap_rename(f.snap.data, f.snap.keys, f.a, f.b)
           [] OTHER -> [data |-> EmptyMap, keys |-> <<>>, ret |-> TRUE]

\* the body of Insert, Delete, Rename or Clear stores the fields it changed
Write(t) ==
    /\ Running(t, "write")
    /\ LET f == Top(t)
           r == Effect(f)
       IN  /\ stack' = WithTop(t, [f EXCEPT !.pc = "exit", !.ret = r.ret])
           /\ IF f.obj = "ss"
              THEN /\ ssData' = r.data
                   /\ UNCHANGED <<smData, smKeys, itGrown>>
              ELSE /\ smData' = r.data
                   /\ smKeys' = r.keys
                   /\ itGrown' = (itGrown \/
                                     (itEnded /\ (Len(r.keys) > Len(smKeys))))
                   /\ ssData' = ssData
    /\ UNCHANGED <<ssOp, ssArg, ssArg2, ssRet, ssVal, ssPanic, ssPre,
                   smOp, smArg, smArg2, smRet, smPreData, smPreKeys,
                   smPrevOp, smPrevArg, smPrevArg2, smOut,
                   ssSafe, smSafe, ownVars, mtx, last, reentered,
                   itLive, itIdx, itEnded>>

\* the boolean a read-only method returns for the call of frame f
Found(f) ==
    CASE f.obj = "ss" /\ f.op = "Get" -> TSortedSlice_getAt(ssData, f.a).found
      [] f.obj = "ss" /\ f.op = "FindIndex" ->
             TSortedSlice_findIndex(ssData, f.a) >= 0
      [] f.obj = "sm" /\ f.op = "Get" -> TSortedMap_get(smData, f.a).found
      [] f.obj = "sm" /\ f.op = "FindIndex" ->
             TSortedMap_findIndex(smData, smKeys, f.a) # <<>>
      [] OTHER -> TRUE

\* the body of Get, FindIndex, Keys, Data or String reads the fields; Get of
\* the set panics on a negative index, and the deferred RUnlock still runs
Look(t) ==
    /\ Running(t, "body")
    /\ LET f == Top(t)
       IN  /\ f.op \in Reading \ {"Iterate"}
           /\ stack' = WithTop(t, [f EXCEPT
                  !.pc = "exit",
                  !.ret = Found(f),
                  !.panic = (f.obj = "ss") /\ (f.op = "Get")
                               /\ TSortedSlice_getAt(ssData, f.a).panic])
    /\ UNCHANGED <<ssVars, smVars, ssSafe, smSafe, ownVars, mtx, last,
                   reentered, itVars>>

\* TSortedMap.Iterate evaluates range sm.keys: the loop will run len(keys)
\* times
Range_keys(t) ==
    /\ Running(t, "body")
    /\ LET f == Top(t)
       IN  /\ f.op = "Iterate"
           /\ stack' = WithTop(t, [f EXCEPT !.pc = "loop", !.i = 0,
                                            !.n = Len(smKeys)])
    /\ UNCHANGED <<ssVars, smVars, ssSafe, smSafe, ownVars, mtx, last,
                   reentered, itVars>>

\* one turn of the loop of Iterate: f(key, sm.data[key]) is called and
\* returns without calling the map
Visit(t) ==
    /\ Running(t, "loop")
    /\ LET f == Top(t)
       IN  /\ f.i < f.n
           /\ stack' = WithTop(t, [f EXCEPT !.i = @ + 1])
    /\ UNCHANGED <<ssVars, smVars, ssSafe, smSafe, ownVars, mtx, last,
                   reentered, itVars>>

\* one turn of the loop of Iterate: f(key, sm.data[key]) is called and calls
\* a method of the same map that changes it
Callback(t, K, V) ==
    /\ Running(t, "loop")
    /\ Top(t).i < Top(t).n
    /\ reentered[t] = "no"
    /\ \E c \in MapWrites(K, V) : Begin(t, c)
    /\ reentered' = [reentered EXCEPT ![t] = "calling"]
    /\ UNCHANGED <<ssVars, smVars, ssSafe, smSafe, ownVars, mtx, last, itVars>>

\* the loop of Iterate has run len(keys) times
Loop_end(t) ==
    /\ Running(t, "loop")
    /\ LET f == Top(t)
       IN  /\ f.i >= f.n
           /\ stack' = WithTop(t, [f EXCEPT !.pc = "exit"])
    /\ UNCHANGED <<ssVars, smVars, ssSafe, smSafe, ownVars, mtx, last,
                   reentered, itVars>>

\* TSortedMap.Iterator: a new closure with its idx at zero
Iterator_new(t) ==
    /\ Running(t, "body")
    /\ LET f == Top(t)
       IN  /\ f.op = "Iterator"
           /\ stack' = WithTop(t, [f EXCEPT !.pc = "exit", !.ret = TRUE])
    /\ itLive' = TRUE
    /\ itIdx' = 0
    /\ itEnded' = FALSE
    /\ itGrown' = FALSE
    /\ UNCHANGED <<ssVars, smVars, ssSafe, smSafe, ownVars, mtx, last,
                   reentered>>

\* one invocation of the closure Iterator returned
Iterator_call(t) ==
    /\ Running(t, "body")
    /\ LET f == Top(t)
           r == Iterator_func(smData, smKeys, itIdx)
       IN  /\ f.op = "cursor"
           /\ stack' = WithTop(t, [f EXCEPT !.pc = "exit", !.ret = r.more])
           /\ itIdx' = r.idx
           /\ itEnded' = (itEnded \/ ~r.more)
    /\ UNCHANGED <<ssVars, smVars, ssSafe, smSafe, ownVars, mtx, last,
                   reentered, itLive, itGrown>>

\* Exit with the slip of no deferred mtx.Unlock() or mtx.RUnlock()
Exit_keepsLock(t) ==
    /\ Running(t, "exit")
    /\ LET f == Top(t)
       IN  /\ stack' = [stack EXCEPT ![t] = SubSeq(@, 1, Len(@) - 1)]
           /\ IF Len(stack[t]) = 1
              THEN /\ last' = [last EXCEPT ![t] =
                          [obj |-> f.obj, op |-> f.op, a |-> f.a, b |-> f.b,
                           ret |-> f.ret, panic |-> f.panic]]
                   /\ reentered' = reentered
              ELSE /\ last' = last
                   /\ reentered' = [reentered EXCEPT ![t] = "returned"]
    /\ UNCHANGED <<ssVars, smVars, ssSafe, smSafe, ownVars, mtx, itVars>>

\* the deferred mtx.Unlock() or mtx.RUnlock() runs and the call returns
Exit(t) ==
    /\ Running(t, "exit")
    /\ LET f == Top(t)
           m == Mode(f)
       IN  /\ mtx' = CASE m = "w" -> [mtx EXCEPT ![f.obj].writer = "free"]
                       [] m = "r" -> [mtx EXCEPT ![f.obj].readers = @ - 1]
                       [] OTHER -> mtx
           /\ stack' = [stack EXCEPT ![t] = SubSeq(@, 1, Len(@) - 1)]
           /\ IF Len(stack[t]) = 1
              THEN /\ last' = [last EXCEPT ![t] =
                          [obj |-> f.obj, op |-> f.op, a |-> f.a, b |-> f.b,
                           ret |-> f.ret, panic |-> f.panic]]
                   /\ reentered' = reentered
              ELSE /\ last' = last
                   /\ reentered' = [reentered EXCEPT ![t] = "returned"]
    /\ UNCHANGED <<ssVars, smVars, ssSafe, smSafe, ownVars, itVars>>

\* every step goroutine t takes inside a call whose callbacks leave the
\* containers alone
Step(t) ==
    \/ Enter(t)
    \/ WAcquire(t)
    \/ Read(t)
    \/ Write(t)
    \/ Look(t)
    \/ Range_keys(t)
    \/ Visit(t)
    \/ Loop_end(t)
    \/ Iterator_new(t)
    \/ Iterator_call(t)
    \/ Exit(t)

\* the goroutines before any call, with or without a cursor made
ThInit(ss, sm, cursor) ==
    /\ ssSafe = ss
    /\ smSafe = sm
    /\ mtx = [o \in {"ss", "sm"} |-> FreeMtx]
    /\ stack = [t \in Threads |-> <<>>]
    /\ last = [t \in Threads |-> NoCall]
    /\ reentered = [t \in Threads |-> "no"]
    /\ itLive = cursor
    /\ itIdx = 0
    /\ itEnded = FALSE
    /\ itGrown = FALSE

(* --------------------------- specifications -------------------------- *)

\* a TSortedSlice as NewSlice(aList, false) returns it
SsInit(aList) ==
    /\ ssData = NewSlice(aList)
    /\ ssOp = "NewSlice"
    /\ ssArg = 0
    /\ ssArg2 = 0
    /\ ssRet = TRUE
    /\ ssVal = 0
    /\ ssPanic = FALSE
    /\ ssPre = ssData

\* a TSortedMap as NewSortedMap returns it
SmInit ==
    /\ smData = EmptyMap
    /\ smKeys = <<>>
    /\ smOp = "NewSortedMap"
    /\ smArg = 0
    /\ smArg2 = 0
    /\ smRet = TRUE
    /\ smPreData = EmptyMap
    /\ smPreKeys = <<>>
    /\ smPrevOp = "none"
    /\ smPrevArg = 0
    /\ smPrevArg2 = 0
    /\ smOut = <<>>

\* one set built from any duplicate-free list, beside an empty map
SetInit ==
    /\ \E aList \in DupFreeSeqs(Elems, MaxInit) : SsInit(aList)
    /\ SmInit
    /\ ThInit(FALSE, FALSE, FALSE)
    /\ MemInit(<<>>)

\* one empty map, beside an empty set
MapInit ==
    /\ SsInit(<<>>)
    /\ SmInit
    /\ ThInit(FALSE, FALSE, FALSE)
    /\ MemInit(<<>>)

SetNext ==
    \/ TSortedSlice_Clear
    \/ TSortedSlice_Delete
    \/ TSortedSlice_FindIndex
    \/ TSortedSlice_Get
    \/ TSortedSlice_Insert
    \/ TSortedSlice_Rename

MapNext ==
    \/ TSortedMap_Clear
    \/ TSortedMap_Delete
    \/ TSortedMap_FindIndex
    \/ TSortedMap_Insert
    \/ TSortedMap_Iterate
    \/ TSortedMap_Rename

\* the calls a single caller makes on one TSortedSlice
SetSpec == SetInit /\ [][SetNext]_vars

\* the calls a single caller makes on one TSortedMap
MapSpec == MapInit /\ [][MapNext]_vars

\* a single caller begins its next call on the map or on the cursor
Caller_calls ==
    /\ stack[1] = <<>>
    /\ \E c \in MapWrites(KeySet, OneVal) \cup MapReads(KeySet, OneVal)
                  \cup MapCursor :
          /\ (c.op = "cursor") => itLive
          /\ Begin(1, c)
    /\ last' = [last EXCEPT ![1] = NoCall]
    /\ reentered' = [reentered EXCEPT ![1] = "no"]
    /\ UNCHANGED <<ssVars, smVars, ssSafe, smSafe, ownVars, mtx, itVars>>

\* one empty map, safe or not, beside an empty set
CursorInit ==
    /\ SsInit(<<>>)
    /\ SmInit
    /\ \E sm \in BOOLEAN : ThInit(FALSE, sm, FALSE)
    /\ MemInit(<<>>)

CursorNext == Caller_calls \/ Step(1)

\* the calls a single caller makes, one after the other, on one TSortedMap
\* and on a cursor of it
CursorSpec == CursorInit /\ [][CursorNext]_vars

\* the goroutines, keys, elements and indexes of the concurrent callers
CcThreads == {1, 2}
CcKeys == {1, 2}
CcElems == {1, 2}
CcIndexes == {0 - 1, 0}

\* a TSortedMap holding the keys K, as Insert calls leave it
SmFilled(K) ==
    /\ smData = [k \in K |-> 1]
    /\ smKeys = AscendingSeqOf(K)
    /\ smOp = "Insert"
    /\ smArg = 0
    /\ smArg2 = 0
    /\ smRet = TRUE
    /\ smPreData = EmptyMap
    /\ smPreKeys = <<>>
    /\ smPrevOp = "none"
    /\ smPrevArg = 0
    /\ smPrevArg2 = 0
    /\ smOut = <<>>

\* goroutine t, which has made no call before, begins its one call on the
\* set, on the map or on the cursor
Go_calls(t) ==
    /\ t \in CcThreads
    /\ stack[t] = <<>>
    /\ last[t] = NoCall
    /\ \E c \in MapWrites(CcKeys, OneVal) \cup MapReads(CcKeys, OneVal)
                  \cup MapCursor \cup SetWrites(CcElems)
                  \cup SetReads(CcElems, CcIndexes) :
          /\ (c.op = "cursor") => itLive
          /\ Begin(t, c)
    /\ UNCHANGED <<ssVars, smVars, ssSafe, smSafe, ownVars, mtx, last,
                   reentered, itVars>>

\* a set of one element and a map of one key, both safe or both not, with
\* a cursor of the map made
ConcInit ==
    /\ SsInit(<<1>>)
    /\ SmFilled({1})
    /\ \E safe \in BOOLEAN : ThInit(safe, safe, TRUE)
    /\ MemInit(<<>>)

ConcNext == \E t \in CcThreads : Go_calls(t) \/ Step(t)

\* two goroutines, each making one call on the set or on the map
ConcSpec == ConcInit /\ [][ConcNext]_vars

\* the same under a scheduler that lets every goroutine run that can take a
\* step
FairConcSpec == ConcSpec /\ \A t \in CcThreads : WF_vars(Step(t))

\* goroutine t, which has made no call before, begins Insert(t, aValue)
Go_inserts(t) ==
    /\ stack[t] = <<>>
    /\ last[t] = NoCall
    /\ \E aValue \in ValSet :
          Begin(t, [obj |-> "sm", op |-> "Insert", a |-> t, b |-> aValue])
    /\ UNCHANGED <<ssVars, smVars, ssSafe, smSafe, ownVars, mtx, last,
                   reentered, itVars>>

\* an empty map, safe or not
InsertInit ==
    /\ SsInit(<<>>)
    /\ SmInit
    /\ \E sm \in BOOLEAN : ThInit(FALSE, sm, FALSE)
    /\ MemInit(<<>>)

InsertNext ==
    \E t \in Threads :
        Go_inserts(t) \/ Enter(t) \/ WAcquire(t) \/ Read(t) \/ Write(t)
            \/ Exit(t)

\* every goroutine inserts one key of its own at the same time
InsertSpec == InsertInit /\ [][InsertNext]_vars

\* the lists a caller may hand to NewSlice, sorted or not
CallerLists == UNION {[1..n -> Elems] : n \in 0..MaxInit}

\* a caller with a list and no TSortedSlice made from it yet
OwnInit ==
    /\ SsInit(<<>>)
    /\ SmInit
    /\ ThInit(FALSE, FALSE, FALSE)
    /\ \E aList \in CallerLists : MemInit(aList)

OwnNext ==
    \/ Caller_writes
    \/ \E i \in Instances :
          Caller_NewSlice(i) \/ Instance_Insert(i) \/ Instance_Delete(i)
              \/ Instance_Rename(i)

\* a caller that makes two TSortedSlice instances from one list, calls
\* their methods and writes to its list
OwnSpec == OwnInit /\ [][OwnNext]_vars

ReentNext == Caller_calls \/ Step(1) \/ Callback(1, KeySet, OneVal)

\* the calls a single caller makes on one TSortedMap, its Iterate callbacks
\* free to call the map
ReentSpec == CursorInit /\ [][ReentNext]_vars

(* ------------------------------ the set ------------------------------ *)

\* C1: after any sequence of Insert, Delete, Rename and Clear calls on a
\* set built from a duplicate-free list, data is strictly ascending.
C1_DataStrictlyAscending == StrictlyAscending(ssData)

\* C3: Insert(x) directly after Insert(x) returns false and leaves data as
\* the first call left it.
C3_InsertTwice ==
    [][(ssOp = "Insert" /\ ssOp' = "Insert" /\ ssArg' = ssArg)
          => ((ssRet' = FALSE) /\ (ssData' = ssData))]_vars

\* C4: Delete(x) directly after Insert(x), for x absent before the Insert,
\* returns true as the Insert did and restores the data from before it.
C4_InsertDeleteRoundTrip ==
    [][(ssOp = "Insert" /\ ssArg \notin Range(ssPre)
          /\ ssOp' = "Delete" /\ ssArg' = ssArg)
          => (ssRet /\ ssRet' /\ (ssData' = ssPre))]_vars

\* C5: after Rename(oldValue, newValue) with both values present and
\* different, newValue occurs exactly once in data.
C5_RenameOntoPresent ==
    (ssOp = "Rename" /\ ssArg # ssArg2
        /\ ssArg \in Range(ssPre) /\ ssArg2 \in Range(ssPre))
    => (Count(ssData, ssArg2) = 1)

\* C6: Get(index) returns normally for every integer index, with found =
\* true and the element at index when 0 <= index < length, and found = false
\* otherwise.
C6_GetNeverAborts ==
    (ssOp = "Get")
    => /\ ~ssPanic
       /\ ssRet <=> ((0 <= ssArg) /\ (ssArg < Len(ssData)))
       /\ ssRet => (ssVal = At(ssData, ssArg))

\* C7: FindIndex(element) returns an index holding element whenever element
\* is in data, and -1 exactly when it is not.
C7_FindIndexFinds ==
    (ssOp = "FindIndex")
    => /\ (ssArg \in Range(ssData))
             => /\ ssVal \in 0..(Len(ssData) - 1)
                /\ At(ssData, ssVal) = ssArg
       /\ (ssVal = 0 - 1) <=> (ssArg \notin Range(ssData))

\* C8: Rename(oldValue, newValue) with oldValue present, newValue absent
\* and the two different returns true and leaves data the ascending sequence
\* of the previous elements without oldValue and with newValue.
C8_RenameMoves ==
    (ssOp = "Rename" /\ ssArg # ssArg2
        /\ ssArg \in Range(ssPre) /\ ssArg2 \notin Range(ssPre))
    => /\ ssRet
       /\ ssData = AscendingSeqOf((Range(ssPre) \ {ssArg}) \cup {ssArg2})

(* ------------------------------ the map ------------------------------ *)

\* C2: after any sequence of Insert, Delete, Rename and Clear calls on a
\* map, keys is strictly ascending and holds exactly the keys of data.
C2_KeysAreSortedKeySet ==
    /\ StrictlyAscending(smKeys)
    /\ Range(smKeys) = DOMAIN smData

\* a key was inserted between two keys already in the map
C2_Witness ==
    /\ smOp = "Insert"
    /\ Len(smPreKeys) = 2
    /\ Len(smKeys) = 3
    /\ smPreKeys[1] < smArg
    /\ smArg < smPreKeys[2]

\* C9: Rename(oldKey, newKey) returns false and changes nothing when newKey
\* exists, oldKey is absent or the two are equal; otherwise it returns true,
\* newKey holds the value oldKey held, oldKey is gone, every other entry is
\* as before and keys holds newKey in ascending position.
C9_MapRename ==
    (smOp = "Rename")
    => IF \/ smArg2 \in DOMAIN smPreData
          \/ smArg \notin DOMAIN smPreData
          \/ smArg = smArg2
       THEN /\ ~smRet
            /\ smData = smPreData
            /\ smKeys = smPreKeys
       ELSE /\ smRet
            /\ TSortedMap_get(smData, smArg2)
                  = [val |-> smPreData[smArg], found |-> TRUE]
            /\ ~TSortedMap_get(smData, smArg).found
            /\ \A k \in KeySet \ {smArg, smArg2} :
                  TSortedMap_get(smData, k) = TSortedMap_get(smPreData, k)
            /\ smKeys = AscendingSeqOf((Range(smPreKeys) \ {smArg})
                                          \cup {smArg2})

\* the smallest of two keys was renamed to a key above the other one
C9_Witness ==
    /\ smOp = "Rename"
    /\ smRet
    /\ Len(smPreKeys) = 2
    /\ smPreKeys[1] = smArg
    /\ smKeys[2] = smArg2

\* C10: Insert(key, value) returns true; for a key already in the map it
\* replaces that key's value only, keys and the other entries staying as
\* they were; a second Insert of the same pair directly after the first
\* leaves the map as the first left it.
C10_MapInsertOverwrites ==
    (smOp = "Insert")
    => /\ smRet
       /\ (smArg \in DOMAIN smPreData)
             => /\ smKeys = smPreKeys
                /\ DOMAIN smData = DOMAIN smPreData
                /\ smData[smArg] = smArg2
                /\ \A k \in (DOMAIN smPreData) \ {smArg} :
                      smData[k] = smPreData[k]
       /\ (smPrevOp = "Insert" /\ smPrevArg = smArg /\ smPrevArg2 = smArg2)
             => /\ smData = smPreData
                /\ smKeys = smPreKeys

\* the same pair was inserted twice in a row, over another value of the key
C10_Witness ==
    /\ smOp = "Insert"
    /\ smPrevOp = "Insert"
    /\ smPrevArg = smArg
    /\ smPrevArg2 = smArg2
    /\ Len(smKeys) >= 2
    /\ smData[smArg] = smArg2

\* C11: Delete(key) returns false and changes nothing when key is absent;
\* when key is present it returns true, takes exactly that key out of data
\* and out of keys, and leaves the other entries and the order of the other
\* keys as they were.
C11_MapDelete ==
    (smOp = "Delete")
    => IF smArg \notin DOMAIN smPreData
       THEN /\ ~smRet
            /\ smData = smPreData
            /\ smKeys = smPreKeys
       ELSE /\ smRet
            /\ DOMAIN smData = (DOMAIN smPreData) \ {smArg}
            /\ \A k \in DOMAIN smData : smData[k] = smPreData[k]
            /\ LET Other(k) == (k # smArg)
               IN  smKeys = SelectSeq(smPreKeys, Other)

\* the middle one of three keys was deleted
C11_Witness ==
    /\ smOp = "Delete"
    /\ smRet
    /\ Len(smPreKeys) = 3
    /\ smPreKeys[2] = smArg
    /\ Len(smKeys) = 2

\* C12: FindIndex(value) returns, in ascending key order, exactly the keys
\* whose value is the queried one, the empty sequence when there is none,
\* and leaves the map as it was.
C12_MapFindIndex ==
    (smOp = "FindIndex")
    => /\ smOut = AscendingSeqOf({k \in DOMAIN smData : smData[k] = smArg})
       /\ smData = smPreData
       /\ smKeys = smPreKeys

\* two keys hold the queried value and a third key holds another one
C12_Witness ==
    /\ smOp = "FindIndex"
    /\ Len(smOut) = 2
    /\ Len(smKeys) = 3

\* C13: Iterate calls the callback exactly once for each entry, in strictly
\* ascending key order, with the key and the value stored under it.
C13_MapIterate ==
    (smOp = "Iterate")
    => /\ Len(smOut) = Cardinality(DOMAIN smData)
       /\ \A i \in 1..Len(smOut) :
             /\ smOut[i][1] \in DOMAIN smData
             /\ smOut[i][2] = smData[smOut[i][1]]
       /\ \A i \in 1..(Len(smOut) - 1) : smOut[i][1] < smOut[i + 1][1]

\* three entries were visited, the last one inserted holding the smallest key
C13_Witness ==
    /\ smOp = "Iterate"
    /\ Len(smOut) = 3
    /\ smPrevOp = "Insert"
    /\ smPrevArg = smKeys[1]

\* C14: once an invocation of the cursor has returned hasMore = false,
\* every later invocation returns hasMore = false, whatever calls changed
\* the map in between.
C14_CursorStaysEnded ==
    \A t \in Threads :
        (itEnded /\ stack[t] = <<>> /\ last[t].op = "cursor")
        => ~last[t].ret

\* what the cursor does keep: once an invocation has returned hasMore =
\* false, every later invocation returns hasMore = false as long as no call
\* has made keys longer since.
C14_CursorStaysEndedUnlessGrown ==
    \A t \in Threads :
        (itEnded /\ ~itGrown /\ stack[t] = <<>> /\ last[t].op = "cursor")
        => ~last[t].ret

\* an ended cursor was invoked and returned hasMore = false with its idx
\* beyond the keys left, no key having been added since it ended
C14_Witness ==
    /\ itEnded
    /\ ~itGrown
    /\ stack[1] = <<>>
    /\ last[1].op = "cursor"
    /\ ~last[1].ret
    /\ itIdx > Len(smKeys)
    /\ Len(smKeys) > 0

(* --------------------------- the goroutines --------------------------- *)

\* the calls of goroutine t on obj, of a method in ops, that are between
\* taking their lock and releasing it
Inside(t, obj, ops) ==
    {j \in 1..Len(stack[t]) :
        /\ stack[t][j].obj = obj
        /\ stack[t][j].op \in ops
        /\ stack[t][j].pc \in {"body", "write", "loop", "exit"}}

\* C15: on a safe map, once every goroutine has inserted its own key, keys
\* is strictly ascending and holds all the keys, and Get returns for each
\* key the value inserted with it.
C15_ConcurrentInserts ==
    (smSafe /\ \A t \in Threads : last[t].op = "Insert")
    => /\ StrictlyAscending(smKeys)
       /\ Range(smKeys) = {last[t].a : t \in Threads}
       /\ \A t \in Threads :
             TSortedMap_get(smData, last[t].a)
                = [val |-> last[t].b, found |-> TRUE]

\* every goroutine has inserted its key into a safe map
C15_Witness ==
    /\ smSafe
    /\ \A t \in Threads : last[t].op = "Insert" /\ last[t].ret
    /\ Len(smKeys) = MaxThreads

\* C16: on a safe container, a call of Insert, Delete, Rename or Clear is in
\* its body only with the write lock held, and then no other goroutine is in
\* the body of any public method of that container; a call of a read-only
\* method is in its body only with a read lock held and no write lock held.
C16_LockDiscipline ==
    \A obj \in {"ss", "sm"} :
        Safe(obj)
        => /\ \A t \in Threads :
                 (Inside(t, obj, Mutating) # {})
                 => /\ mtx[obj].writer = "held"
                    /\ \A u \in Threads \ {t} :
                          Inside(u, obj, Mutating \cup Reading) = {}
           /\ \A t \in Threads :
                 (Inside(t, obj, Reading) # {})
                 => /\ mtx[obj].readers >= 1
                    /\ mtx[obj].writer # "held"

\* one goroutine is about to store what its Insert, Delete, Rename or Clear
\* changed in the safe map while another waits to read that map
C16_Witness ==
    \E t, u \in Threads :
        /\ t # u
        /\ smSafe
        /\ Running(t, "write")
        /\ Top(t).obj = "sm"
        /\ Running(u, "enter")
        /\ Top(u).obj = "sm"
        /\ Top(u).op \in Reading

\* C18: with callbacks that leave the containers alone and a fair
\* scheduler, every call a goroutine begins returns.
C18_CallsReturn ==
    \A t \in CcThreads : (stack[t] # <<>>) ~> (stack[t] = <<>>)

\* both goroutines have returned from calls on the safe map, one of a
\* method that changes it and one of a method that reads it
C18_Witness ==
    /\ smSafe
    /\ \A t \in CcThreads : stack[t] = <<>>
    /\ last[1].obj = "sm"
    /\ last[1].op \in Mutating
    /\ last[2].obj = "sm"
    /\ last[2].op \in Reading

\* C19: an invocation of the closure Iterator returned takes no lock: the
\* step that begins it leaves both locks as they are and goes on to the
\* body.
C19_CursorTakesNoLock ==
    [][\A t \in Threads :
          (Running(t, "enter") /\ Top(t).op = "cursor"
              /\ stack'[t] # stack[t])
          => /\ mtx' = mtx
             /\ stack'[t][Len(stack'[t])].pc = "body"]_vars

\* one goroutine is about to read keys and data in the cursor while another
\* holds the write lock of the safe map and is about to store its changes
C19_Witness ==
    \E t, u \in Threads :
        /\ t # u
        /\ smSafe
        /\ Running(t, "body")
        /\ Top(t).op = "cursor"
        /\ Running(u, "write")
        /\ Top(u).obj = "sm"
        /\ mtx["sm"].writer = "held"

\* C20: on a safe map, a call of Insert, Delete, Rename or Clear made by the
\* callback of Iterate never gets the write lock: it stays before its body,
\* Iterate stays in its loop with its read lock held, and once the write
\* lock is pending the goroutine cannot take another step; on a map that is
\* not safe the goroutine can always take its next step.
C20_CallbackNeverReturns ==
    \A t \in Threads :
        (reentered[t] # "no")
        => IF smSafe
           THEN /\ reentered[t] = "calling"
                /\ Len(stack[t]) = 2
                /\ Top(t).pc \in {"enter", "wwait"}
                /\ stack[t][1].op = "Iterate"
                /\ stack[t][1].pc = "loop"
                /\ mtx["sm"].readers >= 1
                /\ (Top(t).pc = "wwait") => ~ENABLED Step(t)
           ELSE (reentered[t] = "calling") => ENABLED Step(t)

\* the callback of Iterate on a safe map has called a method that changes
\* the map, and the write lock is pending behind Iterate's own read lock
C20_Witness ==
    /\ smSafe
    /\ reentered[1] = "calling"
    /\ Len(stack[1]) = 2
    /\ Top(1).pc = "wwait"
    /\ mtx["sm"].readers = 1

(* ----------------------------- ownership ----------------------------- *)

\* C17: an Insert, Delete or Rename of one instance changes neither what
\* the other instance holds nor the caller's list, and a write of the
\* caller to its list changes what no instance holds.
C17_ExclusiveOwnership ==
    [][/\ \A i \in Instances :
             (Instance_Insert(i) \/ Instance_Delete(i) \/ Instance_Rename(i))
             => \A h \in Holders \ {i} :
                   MemView([heap |-> heap', hdr |-> hdr'], h)
                      = MemView(Mem, h)
       /\ Caller_writes
          => \A i \in Instances :
                MemView([heap |-> heap', hdr |-> hdr'], i)
                   = MemView(Mem, i)]_vars

=============================================================================
